---------------------------- MODULE Spec2Model ----------------------------
(***************************************************************************)
(* Meal attendance app (src/app.py): a Streamlit script that loads a       *)
(* roster from a CSV source, matches a trainee by the last four digits of  *)
(* the phone and appends a timestamped record to a local CSV log.          *)
(*                                                                         *)
(* One script run (one top-to-bottom execution of app.py, triggered by a   *)
(* widget interaction) is one action.  Cell values are sequences of        *)
(* one-character strings, so that digit stripping, slicing and the CSV     *)
(* conversions are computed rather than assumed.                           *)
(*                                                                         *)
(* Spec          one session's script runs on a disk that works            *)
(* SpecFail      the same on a disk that may refuse the write of the log   *)
(* SpecConc      two sessions inside append_log, step by step, and an      *)
(*               admin clearing the log                                    *)
(* SpecNormalize the two phone normalisations on arbitrary phone texts     *)
(***************************************************************************)
EXTENDS Integers, Sequences, FiniteSets, TLC

\* ------------------------------------------------------------------ bounds
MaxRows == 2
MaxLog == 2
MaxClock == 1
MaxPhoneLen == 6
MaxAppends == 3

\* ------------------------------------------------------- program constants
ADMIN_PASSWORD == "cteagms25"
REQUIRED_COLS == {"FullName", "Phone"}
OPTIONAL_COLS == <<"EmployeeID", "TraineeID", "BatchStart", "BatchEnd">>
LOG_COLS == <<"TimestampISO", "Date", "Time", "FullName", "PhoneLast4", "EmployeeID", "TraineeID">>
max_chars == 4
DEFAULT_SHEET_PLACEHOLDER == "Paste your Google Sheet CSV export URL"

\* ------------------------------------------------------- generic helpers
Range(s) == {s[i] : i \in DOMAIN s}

SeqsUpTo(S, n) == UNION {[1..k -> S] : k \in 0..n}

RECURSIVE Filter(_, _)
\* the subsequence of s whose elements are in the set keep, order preserved
Filter(s, keep) ==
  IF s = <<>> THEN <<>>
  ELSE IF Head(s) \in keep THEN <<Head(s)>> \o Filter(Tail(s), keep)
       ELSE Filter(Tail(s), keep)

\* Python's s[-n:]
LastN(s, n) == IF Len(s) <= n THEN s ELSE SubSeq(s, Len(s) - n + 1, Len(s))

\* Python's sorted() on a set of column names
ColOrder == <<"BatchEnd", "BatchStart", "Dept", "EmployeeID", "FullName", "FullNameNorm",
              "Phone", "PhoneLast4", "TraineeID">>
Sorted(S) == Filter(ColOrder, S)

Digits == {"0", "1", "2", "3", "4", "5", "6", "7", "8", "9"}

\* ----------------------------------------------------------- CSV and pandas
\* A missing value (float NaN) as pandas holds it in a str column.
NaN == <<"NaN">>

\* Cell texts that the pandas CSV reader takes for a missing value.
NaTokens == {<<>>, <<"N", "A">>, <<"N", "a", "N">>, <<"n", "a", "n">>, <<"N", "U", "L", "L">>,
             <<"n", "u", "l", "l">>, <<"N", "o", "n", "e">>, <<"N", "/", "A">>, <<"n", "/", "a">>,
             <<"#", "N", "A">>, <<"<", "N", "A", ">">>}

RECURSIVE DropLeadingZeros(_)
DropLeadingZeros(s) ==
  IF Len(s) > 1 /\ Head(s) = "0" THEN DropLeadingZeros(Tail(s)) ELSE s

\* as ParseCell, but without dtype=str: a cell of digits is read as a number
ParseCell_as_number(text) ==
  IF text \in NaTokens THEN NaN
  ELSE IF \A i \in 1..Len(text) : text[i] \in Digits THEN DropLeadingZeros(text)
  ELSE text

\* pd.read_csv(..., dtype=str) on one cell: the text, or NaN
ParseCell(text) == IF text \in NaTokens THEN NaN ELSE text

\* .fillna("") on one cell
FillNa(v) == IF v = NaN THEN <<>> ELSE v

\* DataFrame.to_csv on one cell (na_rep = "")
FormatCell(v) == IF v = NaN THEN <<>> ELSE v

\* A data frame: an ordered list of column names and an ordered list of rows,
\* each row a function from the column names to cell values.
DataFrame(cols, rows) == [cols |-> cols, rows |-> rows]

\* as IsEmpty, but never true (the guard forgotten)
IsEmpty_never(df) == FALSE

\* DataFrame.empty
IsEmpty(df) == Len(df.rows) = 0 \/ Len(df.cols) = 0

\* A CSV file: a header line and data lines, each a tuple of cell texts.
CsvFile(header, lines) == [header |-> header, lines |-> lines]

ColIndex(header, c) == CHOOSE j \in 1..Len(header) : header[j] = c

\* pd.read_csv(f, dtype=str).fillna("")
read_csv_fillna(f) ==
  DataFrame(f.header,
            [i \in 1..Len(f.lines) |->
               [c \in Range(f.header) |-> FillNa(ParseCell(f.lines[i][ColIndex(f.header, c)]))]])

\* df.to_csv(f, index=False)
to_csv(df) ==
  CsvFile(df.cols,
          [i \in 1..Len(df.rows) |-> [j \in 1..Len(df.cols) |-> FormatCell(df.rows[i][df.cols[j]])]])

\* as concat, but with the frames the other way round
concat_reversed(a, b) ==
  DataFrame(b.cols, [i \in 1..(Len(a.rows) + Len(b.rows)) |->
                       IF i <= Len(b.rows) THEN b.rows[i] ELSE a.rows[i - Len(b.rows)]])

\* pd.concat([a, b], ignore_index=True): the columns of a, then those only b
\* has; the rows of a, then the rows of b; a cell a frame lacks is NaN
concat(a, b) ==
  LET cols == a.cols \o Filter(b.cols, Range(b.cols) \ Range(a.cols))
      widen(r) == [c \in Range(cols) |-> IF c \in DOMAIN r THEN r[c] ELSE NaN]
  IN DataFrame(cols, [i \in 1..(Len(a.rows) + Len(b.rows)) |->
                        IF i <= Len(a.rows) THEN widen(a.rows[i])
                        ELSE widen(b.rows[i - Len(a.rows)])])

\* df[c] = vals, one value per row; a new column goes last
AssignCol(df, c, vals) ==
  DataFrame(IF c \in Range(df.cols) THEN df.cols ELSE Append(df.cols, c),
            [i \in 1..Len(df.rows) |->
               [k \in Range(df.cols) \cup {c} |-> IF k = c THEN vals[i] ELSE df.rows[i][k]]])

\* df[c].apply(...): the values of column c, one per row
Column(df, c) == [i \in 1..Len(df.rows) |-> df.rows[i][c]]

\* ------------------------------------------------------------ text helpers
\* re.sub(r"\D", "", s)
RECURSIVE StripNonDigits(_)
StripNonDigits(s) ==
  IF s = <<>> THEN <<>>
  ELSE IF Head(s) \in Digits THEN <<Head(s)>> \o StripNonDigits(Tail(s))
       ELSE StripNonDigits(Tail(s))

\* str.strip()
RECURSIVE LStrip(_)
LStrip(s) == IF s # <<>> /\ Head(s) = " " THEN LStrip(Tail(s)) ELSE s
RECURSIVE RStrip(_)
RStrip(s) == IF s # <<>> /\ s[Len(s)] = " " THEN RStrip(SubSeq(s, 1, Len(s) - 1)) ELSE s
Strip(s) == RStrip(LStrip(s))

\* str.lower()
LowerChar(c) ==
  CASE c = "A" -> "a" [] c = "B" -> "b" [] c = "C" -> "c" [] c = "D" -> "d"
    [] c = "E" -> "e" [] c = "N" -> "n" [] OTHER -> c
Lower(s) == [i \in 1..Len(s) |-> LowerChar(s[i])]

\* ------------------------------------------------------------ roster source
\* _clean_phone
clean_phone(s) == StripNonDigits(s)

\* s[:4] in place of s[-4:]
PhoneLast4Of_first4(s) == IF Len(s) >= 4 THEN SubSeq(s, 1, 4) ELSE s

\* lambda s: s[-4:] if len(s) >= 4 else s
PhoneLast4Of(s) == IF Len(s) >= 4 THEN LastN(s, 4) ELSE s

\* The people a source sheet may list, as the cell texts of the sheet.
Asha == [FullName |-> <<"A">>, Phone |-> <<"+", "9", "-", "0", "3", "2", "1">>,
         EmployeeID |-> <<"E", "1">>, TraineeID |-> <<"0", "7">>,
         BatchStart |-> <<"D", "1">>, BatchEnd |-> <<"D", "2">>, Dept |-> <<"C">>]
Bala == [FullName |-> <<" ", "B">>, Phone |-> <<"0", "3", "2", "1", " ">>,
         EmployeeID |-> <<>>, TraineeID |-> <<"N", "A">>,
         BatchStart |-> <<>>, BatchEnd |-> <<>>, Dept |-> <<"D">>]
Chen == [FullName |-> <<"N", "A">>, Phone |-> <<"(", "1", ")", "2">>,
         EmployeeID |-> <<"0", "0", "7">>, TraineeID |-> <<>>,
         BatchStart |-> <<>>, BatchEnd |-> <<"D", "2">>, Dept |-> <<>>]
People == {Asha, Bala, Chen}

\* listed by the other sheet only
Devi == [FullName |-> <<"D">>, Phone |-> <<"5", "0", "0", "1", "2">>,
         TraineeID |-> <<"0", "8">>, Dept |-> <<"D">>]

\* the rosters of at most n people, in any order, nobody listed twice
Rosters(n) == {ps \in SeqsUpTo(People, n) : \A i, j \in DOMAIN ps : i # j => ps[i] # ps[j]}

\* The header rows a source sheet may have: with both required columns, or not.
GoodHeaders == {<<"FullName", "Phone", "EmployeeID", "TraineeID", "BatchStart", "BatchEnd">>}
BadHeaders == {<<"FullName", "EmployeeID">>, <<"Phone", "TraineeID">>, <<"EmployeeID">>}

SheetOf(header, people) ==
  CsvFile(header, [i \in 1..Len(people) |-> [j \in 1..Len(header) |-> people[i][header[j]]]])

Sheets == {SheetOf(h, ps) : h \in GoodHeaders, ps \in Rosters(MaxRows)}
          \cup {SheetOf(h, <<Asha>>) : h \in BadHeaders}

\* What fetching a URL gives: a CSV file, or an exception with its text.
FetchOk(f) == [ok |-> TRUE, file |-> f, cause |-> ""]
FetchError(e) == [ok |-> FALSE, file |-> CsvFile(<<>>, <<>>), cause |-> e]
FetchCauses == {"HTTP Error 404: Not Found", "No columns to parse from file"}

\* The URLs a user may type into the sidebar, and the configured one.
DefaultUrl == "https://sheet/default"
AltUrl == "https://sheet/alt"
Urls == {"", DefaultUrl, AltUrl}

\* load signals
NoSignal == [kind |-> "Loaded", cause |-> "", missing |-> <<>>]
Signal(kind, cause, missing) == [kind |-> kind, cause |-> cause, missing |-> missing]

EmptyMaster == DataFrame(Sorted(REQUIRED_COLS \cup {"PhoneLast4", "FullNameNorm"}), <<>>)

\* the loop over the four optional columns
RECURSIVE WidenOptional(_, _)
WidenOptional(df, cols) ==
  IF cols = <<>> THEN df
  ELSE WidenOptional(IF Head(cols) \in Range(df.cols) THEN df
                     ELSE AssignCol(df, Head(cols), [i \in 1..Len(df.rows) |-> <<>>]),
                     Tail(cols))

\* as MissingCols, but with the difference the other way round
MissingCols_reversed(cols) == Range(cols) \ REQUIRED_COLS

\* REQUIRED_COLS - set(df.columns)
MissingCols(cols) == REQUIRED_COLS \ Range(cols)

\* load_master_df(sheet_url), with fetched the result of reading that URL; the
\* try/except catches the reader's exception, so none leaves the function
load_master_df(sheet_url, fetched) ==
  IF sheet_url = ""
  THEN [df |-> EmptyMaster, raised |-> FALSE,
        signal |-> Signal("ConfigurationMissing", DEFAULT_SHEET_PLACEHOLDER, <<>>)]
  ELSE IF ~fetched.ok
  THEN [df |-> EmptyMaster, raised |-> FALSE,
        signal |-> Signal("SourceUnavailable", fetched.cause, <<>>)]
  ELSE LET df0 == read_csv_fillna(fetched.file)
           missing == MissingCols(df0.cols)
       IN IF missing # {}
          THEN [df |-> EmptyMaster, raised |-> FALSE,
                signal |-> Signal("SchemaInvalid", "", Sorted(missing))]
          ELSE LET phone == Column(df0, "Phone")
                   df1 == AssignCol(df0, "Phone", [i \in DOMAIN phone |-> clean_phone(phone[i])])
                   digits == Column(df1, "Phone")
                   df2 == AssignCol(df1, "PhoneLast4",
                                    [i \in DOMAIN digits |-> PhoneLast4Of(digits[i])])
                   names == Column(df2, "FullName")
                   df3 == AssignCol(df2, "FullNameNorm",
                                    [i \in DOMAIN names |-> Lower(Strip(names[i]))])
               IN [df |-> WidenOptional(df3, OPTIONAL_COLS), raised |-> FALSE,
                   signal |-> NoSignal]


\* --------------------------------------------------------------- the log
\* LOG_FILE on disk: absent, or a CSV file
NoFile == [exists |-> FALSE, csv |-> CsvFile(<<>>, <<>>)]
OnDisk(f) == [exists |-> TRUE, csv |-> f]

DigitChar(n) == <<"0", "1", "2", "3", "4", "5", "6", "7", "8", "9">>[n + 1]

\* ts.strftime("%Y-%m-%d"), ts.strftime("%H:%M:%S"), ts.isoformat(timespec="seconds")
DateText(ts) == <<"d", DigitChar(ts)>>
TimeText(ts) == <<"t", DigitChar(ts)>>
IsoText(ts) == DateText(ts) \o <<"T">> \o TimeText(ts) \o <<"+">>

\* row.get(c, "")
Get(row, c) == IF c \in DOMAIN row THEN row[c] ELSE <<>>

\* as NewRecord, but with the whole cleaned phone in PhoneLast4
NewRecord_whole_phone(row, ts) ==
  [TimestampISO |-> IsoText(ts), Date |-> DateText(ts), Time |-> TimeText(ts),
   FullName |-> Get(row, "FullName"), PhoneLast4 |-> Get(row, "Phone"),
   EmployeeID |-> Get(row, "EmployeeID"), TraineeID |-> Get(row, "TraineeID")]

\* the dict new of append_log
NewRecord(row, ts) ==
  [TimestampISO |-> IsoText(ts), Date |-> DateText(ts), Time |-> TimeText(ts),
   FullName |-> Get(row, "FullName"), PhoneLast4 |-> Get(row, "PhoneLast4"),
   EmployeeID |-> Get(row, "EmployeeID"), TraineeID |-> Get(row, "TraineeID")]

\* as append_log, but writing only the new row (the old file is not read)
append_log_overwrite(row, file, ts) ==
  [file |-> OnDisk(to_csv(DataFrame(LOG_COLS, <<NewRecord(row, ts)>>))),
   new |-> NewRecord(row, ts)]

\* append_log(row) at time ts: the file it leaves and the dict it returns
append_log(row, file, ts) ==
  LET new == NewRecord(row, ts)
      df_new == DataFrame(LOG_COLS, <<new>>)
      df == IF file.exists THEN concat(read_csv_fillna(file.csv), df_new) ELSE df_new
  IN [file |-> OnDisk(to_csv(df)), new |-> new]

\* load_log()
load_log(file) ==
  IF file.exists THEN read_csv_fillna(file.csv) ELSE DataFrame(LOG_COLS, <<>>)

\* as unlink, but with missing_ok left at its default, False
unlink_strict(file, missing_ok) == [file |-> NoFile, raised |-> ~file.exists]

\* Path.unlink(missing_ok): the file is gone; FileNotFoundError if it was
\* absent and missing_ok is false
unlink(file, missing_ok) == [file |-> NoFile, raised |-> ~file.exists /\ ~missing_ok]

\* ------------------------------------------------------ the attendance form
NoRecord == [TimestampISO |-> <<>>, Date |-> <<>>, Time |-> <<>>, FullName |-> <<>>,
             PhoneLast4 |-> <<>>, EmployeeID |-> <<>>, TraineeID |-> <<>>]

\* the selectbox with nothing chosen (index=None)
NoChoice == <<"None">>

\* re.sub(r"\D", "", phone_last4 or "")[-4:]
NormalizeFragment(phone_last4) == LastN(StripNonDigits(phone_last4), 4)

RECURSIVE SelectRows(_, _)
\* master_df[master_df["PhoneLast4"] == last4].rows
SelectRows(rows, last4) ==
  IF rows = <<>> THEN <<>>
  ELSE IF Head(rows)["PhoneLast4"] = last4
       THEN <<Head(rows)>> \o SelectRows(Tail(rows), last4)
       ELSE SelectRows(Tail(rows), last4)

RECURSIVE StripLeadingZeros(_)
StripLeadingZeros(s) == IF s # <<>> /\ Head(s) = "0" THEN StripLeadingZeros(Tail(s)) ELSE s

\* as Matches, but comparing the two keys as numbers (columns not read as str)
Matches_as_numbers(df, last4) ==
  LET idx == {i \in 1..Len(df.rows) :
                StripLeadingZeros(df.rows[i]["PhoneLast4"]) = StripLeadingZeros(last4)}
  IN [k \in 1..Cardinality(idx) |->
        df.rows[CHOOSE i \in idx : Cardinality({j \in idx : j < i}) = k - 1]]

Matches(df, last4) == SelectRows(df.rows, last4)

\* f"{r.FullName} (Emp:{r.EmployeeID}, Trainee:{r.TraineeID})"
OptionText(r) ==
  r["FullName"] \o <<" ", "(">> \o r["EmployeeID"] \o <<",">> \o r["TraineeID"] \o <<")">>

\* options.index(choice)
IndexOf(options, choice) ==
  CHOOSE i \in 1..Len(options) : options[i] = choice /\ \A j \in 1..(i - 1) : options[j] # choice

\* as TooShort, but rejecting only an empty fragment
TooShort_only_empty(last4) == Len(last4) = 0

\* len(last4) < 4
TooShort(last4) == Len(last4) < 4

\* as Iloc, but indexing the whole roster instead of the matches
Iloc_of_master(matches, master, i) == master.rows[i]

\* matches.iloc[i]
Iloc(matches, master, i) == matches[i]

Outcome(outcome, file, saved, matches, options, rendered) ==
  [outcome |-> outcome, file |-> file, saved |-> saved, matches |-> matches,
   options |-> options, selectbox |-> rendered]

\* the body of "if submitted:"; choice is the value the selectbox returns in
\* this run if the run reaches it
attend_form(master, phone_last4, choice, file, ts) ==
  LET last4 == NormalizeFragment(phone_last4)
      matches == Matches(master, last4)
  IN IF TooShort(last4)
     THEN Outcome("InvalidFragment", file, NoRecord, <<>>, <<>>, FALSE)
     ELSE IF IsEmpty(master)
     THEN Outcome("MasterNotLoaded", file, NoRecord, <<>>, <<>>, FALSE)
     ELSE IF Len(matches) = 0
     THEN Outcome("NoMatch", file, NoRecord, matches, <<>>, FALSE)
     ELSE IF Len(matches) = 1
     THEN LET a == append_log(Iloc(matches, master, 1), file, ts)
          IN Outcome("Recorded", a.file, a.new, matches, <<>>, FALSE)
     ELSE LET options == [i \in 1..Len(matches) |-> OptionText(matches[i])]
          IN IF choice # NoChoice
             THEN LET a == append_log(Iloc(matches, master, IndexOf(options, choice)), file, ts)
                  IN Outcome("Recorded", a.file, a.new, matches, options, TRUE)
             ELSE Outcome("AmbiguousPending", file, NoRecord, matches, options, TRUE)

\* a run in which the form was not submitted
NotSubmitted(file) == Outcome("Idle", file, NoRecord, <<>>, <<>>, FALSE)

\* pd.read_csv on a file of zero bytes raises EmptyDataError
Unreadable(file) == file.exists /\ file.csv.header = <<>>

\* What a df.to_csv(LOG_FILE) that raises leaves on disk.  With the file or
\* its directory write-protected the open fails and the file is as it was; with
\* the disk full the open has truncated the file and nothing could be written.
LeftByFailedWrite(file, state) ==
  IF state = "denied" THEN file ELSE OnDisk(CsvFile(<<>>, <<>>))

\* as AppendOutcome, but with the write's exception caught and passed over
AppendOutcome_swallowed(sub, file, state) ==
  IF sub.outcome # "Recorded" THEN sub
  ELSE IF Unreadable(file)
  THEN Outcome("ReadFailure", file, NoRecord, sub.matches, sub.options, sub.selectbox)
  ELSE IF state # "ok"
  THEN Outcome("Recorded", LeftByFailedWrite(file, state), sub.saved, sub.matches,
               sub.options, sub.selectbox)
  ELSE sub

\* The form handling sub, computed for a log that can be read and written,
\* when the log is file and the disk is in the given state: if append_log is
\* reached, its pd.read_csv (line 86) or its to_csv (line 90) may raise; nothing
\* catches the exception, so append_log does not return, st.success is not
\* reached and the run ends there.
AppendOutcome(sub, file, state) ==
  IF sub.outcome # "Recorded" THEN sub
  ELSE IF Unreadable(file)
  THEN Outcome("ReadFailure", file, NoRecord, sub.matches, sub.options, sub.selectbox)
  ELSE IF state # "ok"
  THEN Outcome("WriteFailure", LeftByFailedWrite(file, state), NoRecord, sub.matches,
               sub.options, sub.selectbox)
  ELSE sub


\* ------------------------------------------------------------------ state
VARIABLES
  remote,                \* what each URL serves (the sheets are not the program's)
  GOOGLE_SHEET_CSV_URL,  \* st.secrets MASTER_SHEET_CSV_URL, "" if not set
  sheet_url_input,       \* the sidebar text input
  sheet_url_override,    \* st.session_state["sheet_url_override"], or Unset
  admin_pwd,             \* the admin password text input
  select_state,          \* the value held by the selectbox widget
  master_df,             \* the roster the last run loaded
  signal,                \* the warning or error the last load showed
  result,                \* what the last run's form handling showed
  admin_out,             \* what the last run's admin panel did
  exception,             \* the exception that ended the last run, "" if none
  logFile,               \* LOG_FILE on disk
  clock,                 \* datetime.now(IST)
  lastEvent,             \* the interaction that triggered the last run
  written,               \* the dicts append_log returned since the file was last absent
  erased,                \* how many records the last run's clear removed
  disk,                  \* whether LOG_FILE can be written: "ok", "denied", "full"
  appending,             \* per session: where its call of append_log is, and its locals
  gone,                  \* the records that were in the log when a clear removed them
  carried,               \* the records an append_log held, read and unwritten, at a clear
  phone,                 \* a phone text handed to the two normalisations
  normalized             \* what the roster loader and the form make of it

\* the state of one session's script runs
uiVars == <<remote, GOOGLE_SHEET_CSV_URL, sheet_url_input, sheet_url_override, admin_pwd,
            select_state, master_df, signal, result, admin_out, exception, lastEvent,
            written, erased, disk>>
runVars == <<uiVars, logFile, clock>>
normVars == <<phone, normalized>>
concVars == <<appending, gone, carried>>
vars == <<runVars, normVars, concVars>>

Unset == "<unset>"

\* what a user may have in the password input: nothing, or the secret
Passwords == {"", ADMIN_PASSWORD}

\* what a user may type into the form's text input (at most max_chars characters)
Fragments == {f \in {<<"0", "3", "2", "1">>, <<"0", "0", "1", "2">>, <<"9", "9", "9", "9">>,
                     <<"1", "2">>, <<"0", "-", "2", "1">>, <<"9", "0", "3", "2", "1">>} :
                Len(f) <= max_chars}

AltSheet == SheetOf(<<"Phone", "FullName", "TraineeID", "Dept">>, <<Chen, Devi>>)

Event(kind, frag, idx, url, pwd) ==
  [kind |-> kind, frag |-> frag, idx |-> idx, url |-> url, pwd |-> pwd]
Open == Event("open", <<>>, 0, "", "")
SubmitEv(f) == Event("submit", f, 0, "", "")
SelectEv(i) == Event("select", <<>>, i, "", "")
UrlEv(u) == Event("url", <<>>, 0, u, "")
PwdEv(p) == Event("pwd", <<>>, 0, "", p)
ButtonEv(b) == Event(b, <<>>, 0, "", "")

\* pd.read_csv(sheet_url): what the URL serves, or the exception
Fetch(url) == IF url \in DOMAIN remote THEN remote[url] ELSE FetchError("No such file")

AdminOut(unlocked, export, tail, cleared) ==
  [unlocked |-> unlocked, preview |-> unlocked, export |-> export, tail |-> tail,
   cleared |-> cleared]

\* what a run's form handling leaves on the page
Shown(sub) ==
  [outcome |-> sub.outcome, saved |-> sub.saved, matches |-> sub.matches,
   options |-> sub.options]

\* the panel stays open once it was opened
Unlocked_sticky(pwd, before) == pwd = ADMIN_PASSWORD \/ before

\* if admin_pwd == ADMIN_PASSWORD, evaluated in every run; before is whether
\* the previous run had opened the panel
Unlocked(pwd, before) == pwd = ADMIN_PASSWORD

\* the sidebar: lines 102-106
SidebarOverride(input, override) ==
  IF input # "" /\ input # GOOGLE_SHEET_CSV_URL THEN input ELSE override
MasterUrl(override) == IF override # Unset THEN override ELSE GOOGLE_SHEET_CSV_URL

\* the state after the first script run of a session
InitRun ==
  /\ GOOGLE_SHEET_CSV_URL \in {"", DefaultUrl}
  /\ \E served \in IF GOOGLE_SHEET_CSV_URL = "" THEN {FetchError("HTTP Error 404: Not Found")}
                    ELSE {FetchOk(s) : s \in Sheets} \cup {FetchError(e) : e \in FetchCauses} :
       remote = [u \in {DefaultUrl, AltUrl} |-> IF u = DefaultUrl THEN served ELSE FetchOk(AltSheet)]
  /\ sheet_url_input = GOOGLE_SHEET_CSV_URL
  /\ sheet_url_override = Unset
  /\ admin_pwd = ""
  /\ select_state = NoChoice
  /\ LET lm == load_master_df(GOOGLE_SHEET_CSV_URL, Fetch(GOOGLE_SHEET_CSV_URL))
     IN master_df = lm.df /\ signal = lm.signal
  /\ result = Shown(NotSubmitted(NoFile))
  /\ admin_out = AdminOut(FALSE, FALSE, FALSE, FALSE)
  /\ exception = ""
  /\ logFile = NoFile
  /\ clock = 0
  /\ lastEvent = Open
  /\ written = <<>>
  /\ erased = 0
  /\ disk = "ok"

\* The two places that reduce a phone text to its last four digits: the roster
\* loader (lines 62-63) and the form handler (line 147), each applied once and
\* applied again to its own result.
Normalized(p) ==
  [roster |-> PhoneLast4Of(clean_phone(p)),
   fragment |-> NormalizeFragment(p),
   rosterTwice |-> PhoneLast4Of(clean_phone(PhoneLast4Of(clean_phone(p)))),
   fragmentTwice |-> NormalizeFragment(NormalizeFragment(p))]

NormIdle == phone = <<>> /\ normalized = Normalized(<<>>)

\* the sessions whose calls of append_log may overlap
Sessions == {"s1", "s2"}

\* a session that is not inside append_log
NotAppending == [pc |-> "idle", new |-> NoRecord, df |-> DataFrame(LOG_COLS, <<>>)]

ConcIdle == appending = [s \in Sessions |-> NotAppending] /\ gone = {} /\ carried = {}

Init == InitRun /\ NormIdle /\ ConcIdle

\* One run of the script, top to bottom, triggered by the interaction ev.  An
\* exception ends the run where it is raised: what follows it does not execute.
ScriptRun(ev) ==
  LET input == IF ev.kind = "url" THEN ev.url ELSE sheet_url_input
      override == SidebarOverride(input, sheet_url_override)
      MASTER_URL == MasterUrl(override)
      submitted == ev.kind = "submit"
      choice == IF ev.kind = "select" THEN result.options[ev.idx] ELSE select_state
      pwd == IF ev.kind = "pwd" THEN ev.pwd ELSE admin_pwd
  IN \E lm \in {load_master_df(MASTER_URL, Fetch(MASTER_URL))} :
     \E sub \in {AppendOutcome(IF submitted /\ ~lm.raised
                                THEN attend_form(lm.df, ev.frag, choice, logFile, clock)
                                ELSE NotSubmitted(logFile),
                                logFile, disk)} :
     \E del \in {unlink(sub.file, TRUE)} :
     LET raised == IF lm.raised THEN "load_master_df"
                   ELSE IF sub.outcome = "ReadFailure" THEN "EmptyDataError"
                   ELSE IF sub.outcome = "WriteFailure" THEN "OSError"
                   ELSE IF Unreadable(sub.file) THEN "EmptyDataError"
                   ELSE ""
         unlocked == raised = "" /\ Unlocked(pwd, admin_out.unlocked)
         pressed == unlocked /\ ev.kind = "clear"
         cleared == pressed /\ ~del.raised
     IN
     /\ sheet_url_input' = input
     /\ sheet_url_override' = override
     /\ master_df' = IF lm.raised THEN master_df ELSE lm.df
     /\ signal' = lm.signal
     /\ select_state' = IF sub.selectbox THEN choice ELSE NoChoice
     /\ result' = Shown(sub)
     /\ admin_pwd' = pwd
     /\ admin_out' = AdminOut(unlocked, unlocked /\ ev.kind = "export",
                              unlocked /\ ev.kind = "tail", cleared)
     /\ exception' = IF raised # "" THEN raised
                     ELSE IF pressed /\ del.raised THEN "FileNotFoundError"
                     ELSE ""
     /\ logFile' = IF pressed THEN del.file ELSE sub.file
     /\ written' = IF pressed THEN <<>>
                   ELSE IF sub.outcome = "Recorded" THEN Append(written, sub.saved)
                   ELSE written
     /\ erased' = IF pressed THEN Len(load_log(sub.file).rows) ELSE 0
     /\ lastEvent' = ev
     /\ UNCHANGED <<remote, GOOGLE_SHEET_CSV_URL, clock, disk, normVars, concVars>>

\* the user presses "Mark Present" with f in the text input
Submit ==
  /\ Len(load_log(logFile).rows) < MaxLog
  /\ \E f \in Fragments : ScriptRun(SubmitEv(f))

\* the user picks an entry of the selectbox the last run displayed
Select ==
  /\ result.outcome = "AmbiguousPending"
  /\ \E i \in 1..Len(result.options) : ScriptRun(SelectEv(i))

\* the user edits the sidebar URL
EditUrl == \E u \in Urls : u # sheet_url_input /\ ScriptRun(UrlEv(u))

\* the user edits the admin password
EnterPassword == \E p \in Passwords : p # admin_pwd /\ ScriptRun(PwdEv(p))

\* the user presses one of the buttons the unlocked admin panel displays
ExportLog == admin_out.unlocked /\ ScriptRun(ButtonEv("export"))
ShowTail == admin_out.unlocked /\ ScriptRun(ButtonEv("tail"))
ClearLogs == admin_out.unlocked /\ ScriptRun(ButtonEv("clear"))

\* time passes
Tick == clock < MaxClock /\ clock' = clock + 1 /\
        UNCHANGED <<remote, GOOGLE_SHEET_CSV_URL, sheet_url_input, sheet_url_override,
                    admin_pwd, select_state, master_df, signal, result, admin_out, exception,
                    logFile, lastEvent, written, erased, disk, normVars, concVars>>

Next ==
  \/ Submit
  \/ Select
  \/ EditUrl
  \/ EnterPassword
  \/ ExportLog
  \/ ShowTail
  \/ ClearLogs
  \/ Tick

Spec == Init /\ [][Next]_vars

\* ------------------------------------------------- a disk that may fail
\* the log can no longer be written: write-protected, or no space left
DiskFails ==
  /\ disk = "ok"
  /\ disk' \in {"denied", "full"}
  /\ UNCHANGED <<remote, GOOGLE_SHEET_CSV_URL, sheet_url_input, sheet_url_override,
                 admin_pwd, select_state, master_df, signal, result, admin_out, exception,
                 logFile, clock, lastEvent, written, erased, normVars, concVars>>

\* the log can be written again
DiskRecovers ==
  /\ disk # "ok"
  /\ disk' = "ok"
  /\ UNCHANGED <<remote, GOOGLE_SHEET_CSV_URL, sheet_url_input, sheet_url_override,
                 admin_pwd, select_state, master_df, signal, result, admin_out, exception,
                 logFile, clock, lastEvent, written, erased, normVars, concVars>>

\* a session on a default sheet with two people whose phones end alike
InitFail ==
  /\ Init
  /\ GOOGLE_SHEET_CSV_URL = DefaultUrl
  /\ remote[DefaultUrl] =
       FetchOk(SheetOf(<<"FullName", "Phone", "EmployeeID", "TraineeID", "BatchStart",
                         "BatchEnd">>, <<Asha, Bala>>))
NextFail == Next \/ DiskFails \/ DiskRecovers
SpecFail == InitFail /\ [][NextFail]_vars

\* ------------------------------------------------ two sessions appending
\* The roster both sessions have loaded: two people, each the only match of
\* the last four digits of their phone.
ConcRoster ==
  load_master_df(AltUrl, FetchOk(SheetOf(<<"FullName", "Phone", "TraineeID">>,
                                         <<Asha, Devi>>))).df

\* the rows a call of append_log has read from the log (its df without new)
ReadRows(held) == SubSeq(held.df.rows, 1, Len(held.df.rows) - 1)

\* as AppendWrite, but with the file read again at the moment of writing
AppendWrite_fresh(held, file) ==
  OnDisk(to_csv(IF file.exists
                THEN concat(read_csv_fillna(file.csv), DataFrame(LOG_COLS, <<held.new>>))
                ELSE DataFrame(LOG_COLS, <<held.new>>)))

\* df.to_csv(LOG_FILE, index=False), line 90: the frame built from what the
\* call has read replaces the file, whatever the file holds by now
AppendWrite(held, file) == OnDisk(to_csv(held.df))

\* as clear_logs, but leaving the file where it is
clear_logs_noop(file) == [file |-> file, raised |-> FALSE]

\* the "Clear ALL logs" button, lines 203-205
clear_logs(file) == unlink(file, TRUE)

\* A submission of session s has found its one match and calls append_log,
\* which builds new and df_new (lines 74-83).  No two calls get the same
\* timestamp.
BeginAppend(s) ==
  /\ appending[s].pc \in {"idle", "done", "failed"}
  /\ clock < MaxAppends
  /\ \E i \in 1..Len(ConcRoster.rows) :
       \E new \in {NewRecord(ConcRoster.rows[i], clock)} :
         appending' = [appending EXCEPT ![s] = [pc |-> "entered", new |-> new,
                                                df |-> DataFrame(LOG_COLS, <<new>>)]]
  /\ clock' = clock + 1
  /\ UNCHANGED <<uiVars, logFile, gone, carried, normVars>>

\* if LOG_FILE.exists(), line 85
ExistsStep(s) ==
  /\ appending[s].pc = "entered"
  /\ appending' = [appending EXCEPT ![s].pc = IF logFile.exists THEN "read" ELSE "write"]
  /\ UNCHANGED <<uiVars, logFile, clock, gone, carried, normVars>>

\* df_old = pd.read_csv(LOG_FILE, dtype=str); df = pd.concat([df_old, df_new]),
\* lines 86-87; the read raises FileNotFoundError if the file is gone by now
ReadStep(s) ==
  /\ appending[s].pc = "read"
  /\ appending' = [appending EXCEPT ![s] =
       IF logFile.exists
       THEN [@ EXCEPT !.pc = "write", !.df = concat(read_csv_fillna(logFile.csv), @)]
       ELSE [@ EXCEPT !.pc = "failed"]]
  /\ UNCHANGED <<uiVars, logFile, clock, gone, carried, normVars>>

\* df.to_csv(LOG_FILE, index=False); return new, lines 90-91, and st.success
WriteStep(s) ==
  /\ appending[s].pc = "write"
  /\ logFile' = AppendWrite(appending[s], logFile)
  /\ appending' = [appending EXCEPT ![s].pc = "done"]
  /\ UNCHANGED <<uiVars, clock, gone, carried, normVars>>

\* an admin's run with the "Clear ALL logs" button pressed
AdminClear ==
  /\ logFile' = clear_logs(logFile).file
  /\ gone' = gone \cup Range(load_log(logFile).rows)
  /\ carried' = UNION {Range(ReadRows(appending[s])) :
                         s \in {t \in Sessions : appending[t].pc = "write"}}
  /\ UNCHANGED <<uiVars, clock, appending, normVars>>

InitConc == Init /\ GOOGLE_SHEET_CSV_URL = ""
NextConc ==
  \/ \E s \in Sessions : BeginAppend(s)
  \/ \E s \in Sessions : ExistsStep(s)
  \/ \E s \in Sessions : ReadStep(s)
  \/ \E s \in Sessions : WriteStep(s)
  \/ AdminClear
SpecConc == InitConc /\ [][NextConc]_vars

\* ------------------------------------------- the normalisation on its own
\* the characters of the phone texts: two digits, a separator and a blank
PhoneChars == {"0", "7", "-", " "}

\* one more character of the phone text
TypePhoneChar ==
  /\ Len(phone) < MaxPhoneLen
  /\ \E c \in PhoneChars : phone' = Append(phone, c)
  /\ normalized' = Normalized(phone')
  /\ UNCHANGED <<runVars, concVars>>

\* the phone text is emptied
ErasePhone ==
  /\ phone # <<>>
  /\ phone' = <<>>
  /\ normalized' = Normalized(phone')
  /\ UNCHANGED <<runVars, concVars>>

InitNormalize == Init /\ GOOGLE_SHEET_CSV_URL = ""
NextNormalize == TypePhoneChar \/ ErasePhone
SpecNormalize == InitNormalize /\ [][NextNormalize]_vars


\* ----------------------------------------------------------------- claims
\* the rows load_log() returns for a file
LogRows(file) == load_log(file).rows

\* the step is a script run (neither the clock nor the disk changes in one)
IsRun == clock' = clock /\ disk' = disk

IdentityFields == {"FullName", "PhoneLast4", "EmployeeID", "TraineeID"}

\* the roster entries of df whose PhoneLast4 is exactly the key
EntriesWithKey(df, key) == {i \in 1..Len(df.rows) : df.rows[i]["PhoneLast4"] = key}

\* C1: when the last run displayed several candidates and the user selects
\* candidate i, the run that follows reaches Recorded and appends exactly one
\* record carrying candidate i's FullName, PhoneLast4, EmployeeID and TraineeID.
C1_SelectionIsRecorded ==
  [][(IsRun /\ lastEvent'.kind = "select") =>
       LET cand == result.matches[lastEvent'.idx]
           before == LogRows(logFile)
           after == LogRows(logFile')
       IN /\ result'.outcome = "Recorded"
          /\ Len(after) = Len(before) + 1
          /\ \A c \in IdentityFields : after[Len(after)][c] = cand[c]]_vars

\* C2 as claimed: a submission whose normalized fragment is the PhoneLast4 of
\* exactly one roster entry appends exactly one record with that entry's
\* FullName, PhoneLast4, EmployeeID and TraineeID.
C2_UniqueMatchRecordsOnce ==
  [][IsRun =>
       LET before == LogRows(logFile)
           after == LogRows(logFile')
           hits == EntriesWithKey(master_df', NormalizeFragment(lastEvent'.frag))
       IN (lastEvent'.kind = "submit" /\ Cardinality(hits) = 1) =>
            /\ result'.outcome = "Recorded"
            /\ Len(after) = Len(before) + 1
            /\ \A c \in IdentityFields :
                 after[Len(after)][c] = master_df'.rows[CHOOSE i \in hits : TRUE][c]]_vars

\* C2 as amended: a submission whose normalized fragment has 4 digits and is
\* the PhoneLast4 of exactly one roster entry appends exactly one record with
\* that entry's FullName, PhoneLast4, EmployeeID and TraineeID, after the rows
\* already there; a run not triggered by the form submit appends nothing; a
\* run adds at most one record, and adds one exactly when it ends as Recorded.
C2_UniqueFourDigitMatchRecordsOnce ==
  [][IsRun =>
       LET before == LogRows(logFile)
           after == LogRows(logFile')
           key == NormalizeFragment(lastEvent'.frag)
           hits == EntriesWithKey(master_df', key)
       IN /\ (lastEvent'.kind = "submit" /\ Len(key) = 4 /\ Cardinality(hits) = 1) =>
               /\ result'.outcome = "Recorded"
               /\ Len(after) = Len(before) + 1
               /\ SubSeq(after, 1, Len(before)) = before
               /\ \A c \in IdentityFields :
                    after[Len(after)][c] = master_df'.rows[CHOOSE i \in hits : TRUE][c]
          /\ lastEvent'.kind # "submit" => Len(after) <= Len(before)
          /\ (Len(after) = Len(before) + 1) <=> (result'.outcome = "Recorded")
          /\ Len(after) > Len(before) => Len(after) = Len(before) + 1]_vars

C2_Witness ==
  /\ lastEvent.kind = "submit"
  /\ result.outcome = "Recorded"
  /\ Len(master_df.rows) >= 2
  /\ Len(LogRows(logFile)) >= 1
  /\ result.saved["EmployeeID"] # <<>>

\* C3 as claimed: whenever no roster entry's PhoneLast4 equals the fragment
\* stripped to digits and cut to its last four, the empty roster included, the
\* submission ends as NoMatch and the log is unchanged.
C3_ZeroMatchesIsNoMatch ==
  [][(IsRun /\ lastEvent'.kind = "submit"
        /\ EntriesWithKey(master_df', PhoneLast4Of(StripNonDigits(lastEvent'.frag))) = {}) =>
       (result'.outcome = "NoMatch" /\ logFile' = logFile)]_vars

\* C3 as amended: whenever no roster entry's PhoneLast4 equals the normalized
\* fragment the log is unchanged, and the submission ends as InvalidFragment
\* if the fragment has fewer than 4 digits, else as MasterNotLoaded if the
\* roster is empty, else as NoMatch.
C3_ZeroMatchesAppendsNothing ==
  [][(IsRun /\ lastEvent'.kind = "submit"
        /\ EntriesWithKey(master_df', PhoneLast4Of(StripNonDigits(lastEvent'.frag))) = {}) =>
       /\ logFile' = logFile
       /\ result'.outcome =
            IF Len(StripNonDigits(lastEvent'.frag)) < 4 THEN "InvalidFragment"
            ELSE IF Len(master_df'.rows) = 0 THEN "MasterNotLoaded"
            ELSE "NoMatch"]_vars

C3_Witness ==
  /\ lastEvent.kind = "submit"
  /\ result.outcome = "NoMatch"
  /\ Len(master_df.rows) > 0
  /\ EntriesWithKey(master_df, NormalizeFragment(lastEvent.frag)) = {}

\* C4: a submitted fragment with fewer than 4 digits after stripping is
\* rejected as InvalidFragment, nothing is left pending and the log is
\* unchanged, also when a roster entry's PhoneLast4 equals the stripped fragment.
C4_ShortFragmentRejected ==
  [][(IsRun /\ lastEvent'.kind = "submit" /\ Len(StripNonDigits(lastEvent'.frag)) < 4) =>
       /\ result'.outcome = "InvalidFragment"
       /\ result'.options = <<>>
       /\ select_state' = NoChoice
       /\ logFile' = logFile
       /\ written' = written]_vars

C4_Witness ==
  /\ lastEvent.kind = "submit"
  /\ result.outcome = "InvalidFragment"
  /\ EntriesWithKey(master_df, StripNonDigits(lastEvent.frag)) # {}


\* C5: starting from a missing log, n successful append_log calls one after
\* the other leave a file with the header line and exactly n data lines, and
\* the records are in the order in which the calls were made.
C5_SequentialAppendsInOrder ==
  IF ~logFile.exists THEN written = <<>>
  ELSE /\ logFile.csv.header = LOG_COLS
       /\ Len(written) >= 1
       /\ Len(logFile.csv.lines) = Len(written)
       /\ \A i \in 1..Len(written) :
            /\ LogRows(logFile)[i]["TimestampISO"] = written[i]["TimestampISO"]
            /\ LogRows(logFile)[i]["FullName"] = written[i]["FullName"]

C5_Witness ==
  /\ logFile.exists
  /\ Len(written) >= 2
  /\ written[1]["FullName"] # written[2]["FullName"]
  /\ written[1]["Time"] # written[2]["Time"]

\* C6: every step leaves the data lines of the log as they are, or adds one
\* line after them, or is the admin clear, which removes the file.
C6_AppendOnlyExceptClear ==
  [][LET before == logFile.csv.lines
         after == logFile'.csv.lines
     IN \/ logFile' = logFile
        \/ /\ lastEvent'.kind = "submit"
           /\ logFile'.exists
           /\ logFile.exists => logFile'.csv.header = logFile.csv.header
           /\ Len(after) = Len(before) + 1
           /\ SubSeq(after, 1, Len(before)) = before
           /\ SubSeq(LogRows(logFile'), 1, Len(before)) = LogRows(logFile)
        \/ /\ lastEvent'.kind = "clear"
           /\ admin_out'.cleared
           /\ ~logFile'.exists]_vars

C6_Witness ==
  /\ lastEvent.kind = "submit"
  /\ result.outcome = "Recorded"
  /\ Len(logFile.csv.lines) >= 2
  /\ logFile.csv.lines[1] # logFile.csv.lines[Len(logFile.csv.lines)]

\* C7: after a run in which the admin pressed clear, whether the log had
\* records, had just been cleared or never existed, no exception was raised,
\* the file is absent and load_log returns no rows.
C7_ClearEmptiesAndIsIdempotent ==
  lastEvent.kind = "clear" =>
    /\ exception = ""
    /\ admin_out.cleared
    /\ ~logFile.exists
    /\ load_log(logFile) = DataFrame(LOG_COLS, <<>>)
    /\ written = <<>>

C7_Witness == lastEvent.kind = "clear" /\ erased > 0 /\ admin_out.cleared

\* C8: the rows load_log returns are, field for field and string for string,
\* the dicts append_log returned, however often later calls have re-read and
\* rewritten the file.
C8_RoundTrip ==
  LET df == load_log(logFile)
  IN /\ df.cols = LOG_COLS
     /\ Len(df.rows) = Len(written)
     /\ \A i \in 1..Len(written) : \A c \in Range(LOG_COLS) : df.rows[i][c] = written[i][c]

C8_Witness ==
  \E i \in 1..(Len(written) - 1) :
    /\ written[i]["PhoneLast4"][1] = "0"
    /\ written[i]["EmployeeID"] = <<>>
    /\ LogRows(logFile)[i] = written[i]

\* C9: load_master_df raises nothing; with no URL it returns no rows and the
\* ConfigurationMissing notice, with a source that cannot be read no rows and
\* SourceUnavailable with the cause, with a source lacking FullName or Phone
\* no rows and SchemaInvalid naming exactly the missing required columns.
C9_LoadDegradesToEmpty ==
  LET url == MasterUrl(sheet_url_override)
      fetched == Fetch(url)
      lacking == REQUIRED_COLS \ Range(fetched.file.header)
  IN /\ exception # "load_master_df"
     /\ url = "" =>
          /\ Len(master_df.rows) = 0
          /\ signal.kind = "ConfigurationMissing"
     /\ (url # "" /\ ~fetched.ok) =>
          /\ Len(master_df.rows) = 0
          /\ signal.kind = "SourceUnavailable"
          /\ signal.cause = fetched.cause
     /\ (url # "" /\ fetched.ok /\ lacking # {}) =>
          /\ Len(master_df.rows) = 0
          /\ signal.kind = "SchemaInvalid"
          /\ Range(signal.missing) = lacking
          /\ Len(signal.missing) = Cardinality(lacking)
     /\ (url # "" /\ fetched.ok /\ lacking = {}) =>
          /\ signal.kind = "Loaded"
          /\ Len(master_df.rows) = Len(fetched.file.lines)

C9_Witness ==
  /\ lastEvent.kind = "url"
  /\ signal.kind = "SchemaInvalid"
  /\ signal.missing = <<"Phone">>
  /\ Len(master_df.rows) = 0
  /\ Len(Fetch(MasterUrl(sheet_url_override)).file.lines) > 0

\* C10 as claimed: when the load left the roster empty, submitting any
\* fragment ends with the master-not-loaded error, appends nothing and raises
\* nothing.
C10_EmptyRosterAnyFragment ==
  [][(IsRun /\ lastEvent'.kind = "submit" /\ Len(master_df'.rows) = 0) =>
       /\ result'.outcome = "MasterNotLoaded"
       /\ logFile' = logFile
       /\ exception' = ""]_vars

\* C10 as amended: when the load left the roster empty, submitting a fragment
\* appends nothing and raises nothing, and ends with the master-not-loaded
\* error if the fragment has 4 digits, with InvalidFragment if it has fewer.
C10_EmptyRosterFourDigitFragment ==
  [][(IsRun /\ lastEvent'.kind = "submit" /\ Len(master_df'.rows) = 0) =>
       /\ result'.outcome = IF Len(StripNonDigits(lastEvent'.frag)) < 4
                            THEN "InvalidFragment" ELSE "MasterNotLoaded"
       /\ logFile' = logFile
       /\ exception' = ""]_vars

C10_Witness ==
  /\ lastEvent.kind = "submit"
  /\ result.outcome = "MasterNotLoaded"
  /\ signal.kind = "SchemaInvalid"
  /\ "Phone" \in Range(signal.missing)


\* C11: for every phone text, the roster loader's PhoneLast4 and the form's
\* normalized fragment are the same text, made of digits only, at most 4
\* characters long, and normalising it again leaves it as it is.
C11_NormalizeDigitsIdempotent ==
  /\ normalized.roster = normalized.fragment
  /\ \A i \in 1..Len(normalized.fragment) : normalized.fragment[i] \in Digits
  /\ Len(normalized.fragment) <= 4
  /\ normalized.rosterTwice = normalized.roster
  /\ normalized.fragmentTwice = normalized.fragment

\* a text with more than 4 digits and a character that is not a digit
C11_Witness ==
  /\ Len(StripNonDigits(phone)) > 4
  /\ Len(phone) > Len(StripNonDigits(phone))
  /\ normalized = Normalized(phone)
  /\ Len(normalized.roster) = 4
  /\ normalized.roster # SubSeq(StripNonDigits(phone), 1, 4)

\* the elements of a set of row numbers, ascending
Ascending(S) ==
  CHOOSE f \in [1..Cardinality(S) -> S] : \A a, b \in 1..Cardinality(S) : a < b => f[a] < f[b]

\* the candidate list of a submission whose fragment matches several entries
C12_CandidateList ==
  LET key == NormalizeFragment(lastEvent'.frag)
      hits == EntriesWithKey(master_df', key)
      order == Ascending(hits)
  IN (lastEvent'.kind = "submit" /\ Cardinality(hits) > 1) =>
       /\ result'.outcome = "AmbiguousPending"
       /\ Len(result'.options) = Cardinality(hits)
       /\ Len(result'.matches) = Cardinality(hits)
       /\ \A j \in 1..Cardinality(hits) :
            /\ result'.matches[j] = master_df'.rows[order[j]]
            /\ result'.matches[j]["PhoneLast4"] = key
            /\ result'.options[j] = OptionText(result'.matches[j])
       /\ LogRows(logFile') = LogRows(logFile)

\* a run that supplies neither a selection nor a new submission
C12_NoSelectionSupplied == lastEvent'.kind \notin {"select", "submit"}

\* the pending submission is still pending, with the same candidates
C12_StillPending ==
  (result.outcome = "AmbiguousPending" /\ C12_NoSelectionSupplied) =>
    /\ result'.outcome = "AmbiguousPending"
    /\ result'.options = result.options
    /\ LogRows(logFile') = LogRows(logFile)

\* C12: a submission whose fragment matches k > 1 roster entries exposes
\* exactly those k entries, in roster order, each with PhoneLast4 equal to the
\* normalized fragment, writes no record, and stays AmbiguousPending with no
\* record written for as long as no selection is supplied.
C12_AmbiguousStaysPending ==
  [][IsRun => (C12_CandidateList /\ C12_StillPending)]_vars

\* the candidate list alone (the part of C12 that concerns the submitting run)
C12_CandidatesOfSubmittingRun == [][IsRun => C12_CandidateList]_vars

\* C13: whenever the sidebar URL field is empty or holds the configured default
\* URL (be it from the start, or after an override was entered and the field
\* was then emptied or set back), the run loads the roster from the configured
\* default source.
C13_OverrideClearable ==
  sheet_url_input \in {"", GOOGLE_SHEET_CSV_URL} =>
    LET lm == load_master_df(GOOGLE_SHEET_CSV_URL, Fetch(GOOGLE_SHEET_CSV_URL))
    IN /\ MasterUrl(sheet_url_override) = GOOGLE_SHEET_CSV_URL
       /\ master_df = lm.df
       /\ signal = lm.signal

\* C14: a run produces the master preview, the export or the tail view, or
\* clears the log, or leaves the log file deleted, only if the password entered
\* in that run is exactly the configured one, whatever earlier runs unlocked.
C14_AdminOnlyWithPassword ==
  [][IsRun =>
       ((\/ admin_out'.preview \/ admin_out'.export \/ admin_out'.tail \/ admin_out'.cleared
         \/ (logFile.exists /\ ~logFile'.exists))
        => admin_pwd' = ADMIN_PASSWORD)]_vars

\* the password was removed from the input (the run before had the panel
\* open) while a log file exists: the panel is closed and the file is kept
C14_Witness ==
  /\ lastEvent.kind = "pwd"
  /\ admin_pwd # ADMIN_PASSWORD
  /\ ~admin_out.unlocked
  /\ ~admin_out.preview
  /\ logFile.exists

\* The roster a run loaded from a source that has the required columns: it has
\* the four optional columns and every column of the source; an optional
\* column the source lacks is empty in every row, one the source has holds the
\* source's cells (as the CSV reader returns them if asRead, else as the text
\* the source has); a record written in that run for an entry of a source
\* without EmployeeID or TraineeID has that field empty.
C17_Roster(asRead) ==
  LET src == Fetch(MasterUrl(sheet_url_override')).file
  IN signal'.kind = "Loaded" =>
       /\ Range(OPTIONAL_COLS) \subseteq Range(master_df'.cols)
       /\ Range(src.header) \subseteq Range(master_df'.cols)
       /\ Len(master_df'.rows) = Len(src.lines)
       /\ \A i \in 1..Len(src.lines) : \A c \in Range(OPTIONAL_COLS) :
            master_df'.rows[i][c] =
              IF c \notin Range(src.header) THEN <<>>
              ELSE IF asRead THEN FillNa(ParseCell(src.lines[i][ColIndex(src.header, c)]))
              ELSE src.lines[i][ColIndex(src.header, c)]
       /\ result'.outcome = "Recorded" =>
            \A c \in {"EmployeeID", "TraineeID"} \ Range(src.header) : result'.saved[c] = <<>>

\* C17: for every source with the required columns the loaded roster has the
\* four optional columns, an absent one empty in every row, a present one with
\* its source values, no source column dropped; a record for an entry of a
\* source without EmployeeID/TraineeID has empty strings there.
C17_OptionalColumnsKeepSourceValues == [][IsRun => C17_Roster(FALSE)]_vars

\* the same with a present column compared to what pd.read_csv(dtype=str)
\* followed by fillna("") makes of the source's cells
C17_OptionalColumnsAsRead == [][IsRun => C17_Roster(TRUE)]_vars

\* C18: from a missing log on, every record of the log has a PhoneLast4 of
\* exactly 4 digits; a record a run adds has the normalized fragment of the
\* submission that triggered the run; no run records a roster entry whose
\* phone has fewer than 4 digits.
C18_RecordsHaveFourDigits ==
  [][IsRun =>
       \A before \in {LogRows(logFile)} : \A after \in {LogRows(logFile')} :
          /\ \A i \in 1..Len(after) :
               /\ Len(after[i]["PhoneLast4"]) = 4
               /\ \A k \in 1..4 : after[i]["PhoneLast4"][k] \in Digits
          /\ Len(after) > Len(before) =>
               /\ lastEvent'.kind = "submit"
               /\ after[Len(after)]["PhoneLast4"] = NormalizeFragment(lastEvent'.frag)
          /\ \A i \in 1..Len(master_df'.rows) :
               (Len(master_df'.rows[i]["Phone"]) < 4 /\ result'.outcome = "Recorded") =>
                 \E c \in IdentityFields : result'.saved[c] # master_df'.rows[i][c]]_vars

\* the log has a record, and the last submission was the whole phone of an
\* entry with a short phone
C18_Witness ==
  /\ Len(LogRows(logFile)) >= 1
  /\ lastEvent.kind = "submit"
  /\ result.outcome # "Recorded"
  /\ \E i \in 1..Len(master_df.rows) :
       /\ Len(master_df.rows[i]["Phone"]) < 4
       /\ master_df.rows[i]["PhoneLast4"] = NormalizeFragment(lastEvent.frag)

\* C16: when a submission reaches append_log (4-digit fragment, exactly one
\* match, readable log) and the write of the log fails, the run ends with the
\* write's exception: it is not Recorded, no record and no success message is
\* shown, the log holds no new record (the write is not made again), and the
\* rest of the script is not run.
C16_WriteFailurePropagates ==
  [][IsRun =>
       \A before \in {LogRows(logFile)} : \A after \in {LogRows(logFile')} :
       LET key == NormalizeFragment(lastEvent'.frag)
           reached == /\ lastEvent'.kind = "submit"
                      /\ Len(key) = 4
                      /\ Cardinality(EntriesWithKey(master_df', key)) = 1
                      /\ ~Unreadable(logFile)
       IN (reached /\ disk # "ok") =>
            /\ result'.outcome = "WriteFailure"
            /\ result'.saved = NoRecord
            /\ exception' = "OSError"
            /\ after \in {before, <<>>}
            /\ ~admin_out'.unlocked]_vars

\* a submission with a unique match ended by the failed write, while the log
\* already had a record
C16_Witness ==
  /\ lastEvent.kind = "submit"
  /\ disk # "ok"
  /\ result.outcome = "WriteFailure"
  /\ exception = "OSError"
  /\ Cardinality(EntriesWithKey(master_df, NormalizeFragment(lastEvent.frag))) = 1
  /\ written # <<>>

\* C15: when session s writes the log from a read made before the other
\* session t wrote its record (t has returned, its record is in the file, and
\* is not among the rows s holds), both calls have returned normally and the
\* log has the record of s but no longer the record of t.
C15_LostUpdate ==
  [][\A s, t \in Sessions :
       (/\ s # t
        /\ appending[s].pc = "write" /\ appending'[s].pc = "done"
        /\ appending[t].pc = "done"
        /\ appending[t].new \in Range(LogRows(logFile))
        /\ appending[t].new \notin Range(appending[s].df.rows))
       => /\ appending'[t].pc = "done"
          /\ appending[s].new \in Range(LogRows(logFile'))
          /\ appending[t].new \notin Range(LogRows(logFile'))]_vars

\* both sessions have appended to a log nobody cleared, and the log has one
\* record only
C15_Witness ==
  /\ gone = {}
  /\ \A s \in Sessions : appending[s].pc = "done"
  /\ \E s, t \in Sessions :
       /\ appending[s].new # appending[t].new
       /\ LogRows(logFile) = <<appending[s].new>>

\* C19 as claimed: no record that a clear removed from the log is in the log
\* afterwards.
C19_ClearedRecordsNeverReturn == Range(LogRows(logFile)) \cap gone = {}

\* C19 as amended: a record that a clear removed is in the log afterwards only
\* if a call of append_log held it, read and not yet written, at the moment of
\* the last clear.
C19_ClearedRecordsReturnOnlyIfHeld == (Range(LogRows(logFile)) \cap gone) \subseteq carried

\* after a clear that no append_log was holding records at, the log has
\* records again
C19_Witness ==
  /\ gone # {}
  /\ carried = {}
  /\ LogRows(logFile) # <<>>
  /\ \E s \in Sessions : appending[s].pc = "done" /\ appending[s].new \in Range(LogRows(logFile))

=============================================================================
